---- MODULE Spec2Model ----
(***************************************************************************)
(* Decode/playback synchronisation engine of the desktop video editor.    *)
(*                                                                         *)
(* The decode worker (apps/desktop/src/decode/worker.rs, spawn_worker) is  *)
(* a thread that drains a command channel and then runs one tick of its    *)
(* mode (Playing / Seeking / Paused), publishing frames into the           *)
(* LatestFrameSlot.  The consumer sends commands over the channel.         *)
(* The preview redraw (apps/desktop/src/preview/ui.rs, preview_ui) is the  *)
(* consumer: its DispatchController decides which commands to send and     *)
(* its FrameSelector picks the frame to present from the slot.             *)
(* Times are in milliseconds, presentation timestamps in milliseconds.     *)
(***************************************************************************)
EXTENDS Integers, Sequences, FiniteSets, TLC

(***************************************************************************)
(* Bounds of the model.                                                    *)
(***************************************************************************)
\* commands that may wait in the channel at once
MaxQueue == 1
\* commands the consumer sends in one run
MaxSends == 3
\* wall-clock steps the run lasts
MaxClockSteps == 1
\* milliseconds per wall-clock step
ClockStepMs == 1000

(***************************************************************************)
(* Program constants.                                                      *)
(***************************************************************************)
PREFETCH_BUDGET_PER_TICK == 6
\* stall timeout of a seek, in ms (t0.elapsed().as_millis() > 800)
StallTimeoutMs == 800

\* presentation timestamps used as seek targets, play anchors and frame pts
Pts == {1000, 2000}
\* playback rates
Rates == {1, 2}

\* Option<T>
None == [some |-> FALSE]
Some(x) == [some |-> TRUE, v |-> x]

\* enum PlayState (the worker never constructs Scrubbing)
PlayState == {"Paused", "Seeking", "Playing", "Scrubbing"}

\* enum DecodeCmd
PlayCmd(p, r) == [type |-> "Play", start_pts |-> p, rate |-> r]
SeekCmd(p) == [type |-> "Seek", target_pts |-> p]
PauseCmd == [type |-> "Pause"]
StopCmd == [type |-> "Stop"]
DecodeCmd ==
    {PlayCmd(p, r) : p \in Pts, r \in Rates} \cup {SeekCmd(p) : p \in Pts}
        \cup {PauseCmd, StopCmd}

\* struct VideoFrameOut, without the pixel payload and the properties
VideoFrameOut(p, a) == [pts |-> p, accurate |-> a]

VARIABLES
    \* worker locals (worker.rs 95-103)
    mode, rate, anchor_pts, anchor_t, running, need_seek_decode,
    last_seek_target, seek_started_at, approx_shown,
    \* position of the worker thread: "drain", "tick" or "exited"
    pc,
    \* the command channel (cmd_tx / cmd_rx) and the LatestFrameSlot
    queue, slot,
    \* the decoder's strict_paused flag
    strict_paused,
    \* wall clock, in ms
    now,
    \* history: commands sent so far; what the last worker step did;
    \* the events of the seek in flight; the last seek call issued while a
    \* seek has been in flight; the last command processed; a Pause was
    \* processed while the seek now in flight was in flight
    sent, ev, seek_hist, issued, last_cmd, pause_deferred,
    \* the LatestFrameSlot of the worker of a second source
    slot_b,
    \* dispatch memory of the preview (App fields, app.rs 53-66)
    last_sent, last_seek_sent_pts, last_play_reanchor_time,
    last_seek_request_at,
    \* history: what the last preview redraw was given and did, and when
    \* the preview last sent a Seek; the sources that have been sent a Seek
    ui_ev, seeked,
    \* the LatestFrameSlot's mutex is poisoned
    poisoned,
    \* the decoder's FrameRing (the pts of its frames, oldest first) and
    \* what the last operation on it was given and returned
    ring, ring_ev,
    \* the PlaybackClock, the playhead (a frame index of the sequence) and
    \* what the last update of the App did to the clock
    clock, playhead, clock_ev,
    \* the inputs and the result of the epsilon computation of a redraw
    eps_ev,
    \* the GstDecoder next to its ring (last_out_pts, and the pts of the
    \* next sample of its pipeline) and the history of its calls
    gst, gst_ev

worker_vars ==
    <<mode, rate, anchor_pts, anchor_t, running, need_seek_decode,
      last_seek_target, seek_started_at, approx_shown>>
hist_vars == <<ev, seek_hist, issued, last_cmd, pause_deferred>>
dispatch_vars ==
    <<last_sent, last_seek_sent_pts, last_play_reanchor_time,
      last_seek_request_at>>
ring_vars == <<ring, ring_ev>>
clock_vars == <<clock, playhead, clock_ev>>
gst_vars == <<gst, gst_ev>>
lib_vars ==
    <<poisoned, ring, ring_ev, clock, playhead, clock_ev, eps_ev, gst,
      gst_ev>>
ui_vars ==
    <<slot_b, last_sent, last_seek_sent_pts, last_play_reanchor_time,
      last_seek_request_at, ui_ev, seeked>>
vars ==
    <<mode, rate, anchor_pts, anchor_t, running, need_seek_decode,
      last_seek_target, seek_started_at, approx_shown, pc, queue, slot,
      strict_paused, now, sent, ev, seek_hist, issued, last_cmd,
      pause_deferred, slot_b, last_sent, last_seek_sent_pts,
      last_play_reanchor_time, last_seek_request_at, ui_ev, seeked,
      poisoned, ring, ring_ev, clock, playhead, clock_ev, eps_ev, gst,
      gst_ev>>

\* what one worker step did to the decoder and to the slot, and the mode it
\* started in
Quiet(k) ==
    [kind |-> k, from |-> mode, seeks |-> <<>>, decodes |-> 0,
     dropped |-> 0, wrote |-> FALSE, out |-> None, ssp |-> FALSE]

\* no redraw has run yet
NoRedraw ==
    [n |-> 0, state |-> "None", path |-> "none", t |-> 0, strict |-> TRUE,
     need |-> FALSE, stale |-> FALSE, cmds |-> <<>>, picked |-> None,
     seek_at |-> None]

\* App::new: the dispatch memory starts empty (app.rs 208-212)
InitUi ==
    /\ slot_b = None
    /\ last_sent = None
    /\ last_seek_sent_pts = None
    /\ last_play_reanchor_time = None
    /\ last_seek_request_at = None
    /\ ui_ev = NoRedraw
    /\ seeked = {}

\* FrameRing::new, PlaybackClock { rate: 1.0, ..Default::default() }, a
\* healthy mutex, no computation made yet
InitRing ==
    /\ ring = <<>>
    /\ ring_ev = [op |-> "new", arg |-> 0, before |-> <<>>, out |-> None]
InitClock ==
    /\ clock = [playing |-> FALSE, rate |-> 1, anchor_position |-> 0,
                anchor_instant |-> 0]
    /\ playhead = 0
    /\ clock_ev = [n |-> 0, calls |-> <<>>, was |-> 0, at |-> 0,
                   prev |-> [calls |-> <<>>, was |-> 0, at |-> 0]]
\* GstDecoder::new: nothing output yet, the pipeline at its first frame
InitGst ==
    /\ gst = [last_out_pts |-> None, next |-> 1]
    /\ gst_ev = [op |-> "new", target |-> 0, seeked |-> FALSE,
                 out |-> None, was |-> [ring |-> <<>>, strict |-> FALSE,
                                        last_out_pts |-> None],
                 at_seek |-> <<>>, old |-> <<>>, out_old |-> FALSE,
                 high_was |-> None,
                 run |-> [high |-> None, asked |-> None, mono |-> TRUE]]
InitLib ==
    /\ poisoned = FALSE
    /\ InitRing
    /\ InitClock
    /\ InitGst
    /\ eps_ev = [latest_fps |-> None, seq_fps |-> 1, out |-> None]

\* the worker's locals as its loop is entered, the thread being at `p`
InitWorker(p) ==
    /\ mode = "Paused"
    /\ rate = 1
    /\ anchor_pts = 0
    /\ anchor_t = 0
    /\ running = TRUE
    /\ need_seek_decode = FALSE
    /\ last_seek_target = None
    /\ seek_started_at = None
    /\ approx_shown = FALSE
    /\ pc = p
    /\ queue = <<>>
    /\ slot = None
    /\ strict_paused = FALSE
    /\ now = 0
    /\ sent = 0
    /\ ev = Quiet("init")
    /\ seek_hist = <<>>
    /\ issued = None
    /\ last_cmd = "None"
    /\ pause_deferred = FALSE

Init == InitWorker("drain") /\ InitUi /\ InitLib

(***************************************************************************)
(* The decoder as the worker sees it: each decode_frame call returns a     *)
(* frame or nothing.  One run of the decoder over the calls of a tick:     *)
(* nothing before call `ready`, a frame at call `ready`, and after it a    *)
(* frame at every call (more) or nothing again.                            *)
(***************************************************************************)
\* decode_frame calls one tick can make: the first, then two per retry
MaxCallsPerTick == 1 + 2 * PREFETCH_BUDGET_PER_TICK

DecoderRun(ready, more, p) ==
    [i \in 1..MaxCallsPerTick |->
        IF i = ready \/ (i > ready /\ more) THEN Some(p) ELSE None]

\* the calls at which a frame may first be ready: the first call, the first
\* discarded call, the first retry, the last retry, and never in this tick
ReadyCalls == {1, 2, 3, MaxCallsPerTick, MaxCallsPerTick + 1}

DecoderRuns ==
    {DecoderRun(ready, more, p) :
        ready \in ReadyCalls, more \in BOOLEAN, p \in Pts}

\* worker.rs 152-157 and 197-202: while f.is_none() && tries < budget, one
\* decode_frame call whose result is discarded, then one whose result is kept
RECURSIVE CoaxLoop(_, _, _, _, _)
CoaxLoop(run, f, tries, calls, dropped) ==
    IF ~f.some /\ tries < PREFETCH_BUDGET_PER_TICK
    THEN CoaxLoop(run, run[calls + 2], tries + 1, calls + 2,
                  dropped + (IF run[calls + 1].some THEN 1 ELSE 0))
    ELSE [f |-> f, calls |-> calls, dropped |-> dropped]

\* worker.rs 151 and 196: the first decode_frame call, then the coax loop
DecodeWithCoax(run) == CoaxLoop(run, run[1], 0, 1, 0)

(***************************************************************************)
(* Command handlers (worker.rs 109-144).                                   *)
(***************************************************************************)
\* only (re)anchor when transitioning into Playing
PlayReanchors_Always == TRUE
PlayReanchors == mode # "Playing"

\* resume streaming mode in decoder: cpu_dec.set_strict_paused(false)
StrictAfterPlay_Kept == strict_paused
StrictAfterPlay == FALSE

\* DecodeCmd::Play { start_pts, rate }
OnPlay(c) ==
    /\ IF PlayReanchors
       THEN /\ mode' = "Playing"
            /\ anchor_pts' = c.start_pts
            /\ anchor_t' = now
            /\ strict_paused' = StrictAfterPlay
       ELSE UNCHANGED <<mode, anchor_pts, anchor_t, strict_paused>>
    /\ rate' = c.rate
    /\ need_seek_decode' = FALSE
    /\ last_seek_target' = None
    /\ seek_started_at' = None
    /\ UNCHANGED <<running, approx_shown>>
    /\ ev' = [Quiet("cmd") EXCEPT !.ssp = PlayReanchors]
    /\ seek_hist' = <<>>
    /\ issued' = None
    /\ pause_deferred' = FALSE

\* the mode a Seek command sets
SeekMode_KeepsPlaying == IF mode = "Playing" THEN "Playing" ELSE "Seeking"
SeekMode == "Seeking"

\* DecodeCmd::Seek { target_pts }
OnSeek(c) ==
    /\ mode' = SeekMode
    /\ anchor_pts' = c.target_pts
    /\ need_seek_decode' = TRUE
    /\ last_seek_target' = None
    /\ UNCHANGED <<rate, anchor_t, running, seek_started_at, approx_shown,
                   strict_paused>>
    /\ ev' = Quiet("cmd")
    /\ seek_hist' = <<>>
    /\ UNCHANGED <<issued, pause_deferred>>

\* if a strict seek is in progress, defer pause until preroll arrives
PauseDefers_Never == FALSE
PauseDefers == need_seek_decode

\* DecodeCmd::Pause
OnPause ==
    /\ IF PauseDefers
       THEN UNCHANGED mode
       ELSE mode' = "Paused"
    /\ pause_deferred' = (pause_deferred \/ need_seek_decode)
    /\ UNCHANGED <<rate, anchor_pts, anchor_t, running, need_seek_decode,
                   last_seek_target, seek_started_at, approx_shown,
                   strict_paused>>
    /\ ev' = Quiet("cmd")
    /\ UNCHANGED <<seek_hist, issued>>

\* the value Stop gives the running flag
StopRunning_Ignored == running
StopRunning == FALSE

\* DecodeCmd::Stop
OnStop ==
    /\ running' = StopRunning
    /\ UNCHANGED <<mode, rate, anchor_pts, anchor_t, need_seek_decode,
                   last_seek_target, seek_started_at, approx_shown,
                   strict_paused>>
    /\ ev' = Quiet("cmd")
    /\ UNCHANGED <<seek_hist, issued, pause_deferred>>

\* one iteration of `while let Ok(cmd) = cmd_rx.try_recv()`
RecvCmd ==
    /\ pc = "drain"
    /\ queue # <<>>
    /\ LET c == Head(queue) IN
        /\ queue' = Tail(queue)
        /\ last_cmd' = c.type
        /\ CASE c.type = "Play" -> OnPlay(c)
             [] c.type = "Seek" -> OnSeek(c)
             [] c.type = "Pause" -> OnPause
             [] c.type = "Stop" -> OnStop
    /\ UNCHANGED <<pc, slot, now, sent, ui_vars, lib_vars>>

\* try_recv() on an empty channel returns Err(Empty) at once
EmptyRecvReturns_Blocking == FALSE
EmptyRecvReturns == TRUE

\* try_recv() finds the channel empty: the drain loop ends
DrainEnd ==
    /\ pc = "drain"
    /\ queue = <<>>
    /\ EmptyRecvReturns
    /\ pc' = "tick"
    /\ ev' = Quiet("drained")
    /\ UNCHANGED <<worker_vars, queue, slot, strict_paused, now, sent,
                   seek_hist, issued, last_cmd, pause_deferred, ui_vars, lib_vars>>

\* `while running`: the test made after each tick
AfterTick == IF running THEN "drain" ELSE "exited"

(***************************************************************************)
(* One tick of the worker: `match mode` (worker.rs 146-257).               *)
(***************************************************************************)
\* `*g = Some(out)` under the slot's lock (worker.rs 172 and 217)
SlotStore_KeepFirst(cur, out) == IF cur.some THEN cur ELSE Some(out)
SlotStore(cur, out) == Some(out)

\* `if let Ok(mut g) = slot_for_worker.0.lock() { *g = Some(out); }`: the
\* lock of a poisoned mutex fails and the assignment is skipped
LockedStore(cur, out) == IF poisoned THEN cur ELSE SlotStore(cur, out)

\* PlayState::Playing arm
TickPlaying(run) ==
    LET r == DecodeWithCoax(run) IN
    /\ slot' = IF r.f.some
               THEN LockedStore(slot, VideoFrameOut(r.f.v, TRUE))
               ELSE slot
    /\ ev' = [kind |-> "tick", from |-> mode, seeks |-> <<>>,
              decodes |-> r.calls, dropped |-> r.dropped,
              wrote |-> r.f.some /\ ~poisoned,
              out |-> IF r.f.some THEN Some(VideoFrameOut(r.f.v, TRUE))
                      ELSE None,
              ssp |-> FALSE]
    /\ UNCHANGED <<worker_vars, strict_paused, seek_hist, issued,
                   pause_deferred>>

\* the seek call of the current stage (worker.rs 187-191 and 239-243)
StageSeek_KeyUnitOnly(target) == [op |-> "seek_to_keyframe", t |-> target]
StageSeek(target) ==
    [op |-> IF ~approx_shown THEN "seek_to_keyframe" ELSE "seek_to",
     t |-> target]

\* after accurate preroll, transition to paused and hold last frame
SeekDoneMode_Stays == "Seeking"
SeekDoneMode == "Paused"

\* stall nudge: no frame in this tick and the seek started longer ago than
\* the stall timeout
StallNudge_Never(got, started) == FALSE
StallNudge(got, started) ==
    ~got /\ started.some /\ now - started.v > StallTimeoutMs

\* PlayState::Seeking | PlayState::Scrubbing arm
TickSeeking(run) ==
    IF need_seek_decode
    THEN
        LET target == anchor_pts
            \* coalesce seeks: only re-issue if target changed
            reissue == IF last_seek_target.some
                       THEN last_seek_target.v # target
                       ELSE TRUE
            started == IF reissue THEN Some(now) ELSE seek_started_at
            r == DecodeWithCoax(run)
            nudge == StallNudge(r.f.some, started)
            seeks == (IF reissue THEN <<StageSeek(target)>> ELSE <<>>)
                        \o (IF nudge THEN <<StageSeek(target)>> ELSE <<>>)
        IN
        /\ IF r.f.some
           THEN /\ slot' = LockedStore(slot,
                            VideoFrameOut(r.f.v, approx_shown))
                /\ IF ~approx_shown
                   THEN /\ approx_shown' = TRUE
                        /\ last_seek_target' = None
                        /\ seek_started_at' = started
                        /\ UNCHANGED <<need_seek_decode, mode>>
                   ELSE /\ need_seek_decode' = FALSE
                        /\ mode' = SeekDoneMode
                        /\ last_seek_target' = None
                        /\ seek_started_at' = None
                        /\ approx_shown' = FALSE
           ELSE /\ UNCHANGED <<slot, approx_shown, need_seek_decode, mode>>
                /\ last_seek_target' =
                        IF reissue \/ nudge THEN Some(target)
                        ELSE last_seek_target
                /\ seek_started_at' = IF nudge THEN Some(now) ELSE started
        /\ strict_paused' = IF seeks # <<>> THEN TRUE ELSE strict_paused
        /\ UNCHANGED <<rate, anchor_pts, anchor_t, running>>
        /\ ev' = [kind |-> "tick", from |-> mode, seeks |-> seeks,
                  decodes |-> r.calls, dropped |-> r.dropped,
                  wrote |-> r.f.some /\ ~poisoned,
                  out |-> IF r.f.some
                          THEN Some(VideoFrameOut(r.f.v, approx_shown))
                          ELSE None,
                  ssp |-> FALSE]
        /\ seek_hist' = seek_hist
                \o [i \in 1..Len(seeks) |-> seeks[i].op]
                \o (IF r.f.some
                    THEN <<IF approx_shown THEN "accurate" ELSE "approx">>
                    ELSE <<>>)
        /\ issued' = IF r.f.some /\ approx_shown THEN None
                     ELSE IF seeks # <<>> THEN Some(seeks[Len(seeks)])
                     ELSE issued
        /\ pause_deferred' =
                IF r.f.some /\ approx_shown THEN FALSE ELSE pause_deferred
    ELSE
        /\ UNCHANGED <<worker_vars, slot, strict_paused, seek_hist, issued,
                       pause_deferred>>
        /\ ev' = Quiet("tick")

\* PlayState::Paused arm: hold last frame; avoid decoding
TickPaused_Decodes == \E run \in DecoderRuns : TickPlaying(run)
TickPaused ==
    /\ UNCHANGED <<worker_vars, slot, strict_paused, seek_hist, issued,
                   pause_deferred>>
    /\ ev' = Quiet("tick")

\* one tick, the decoder behaving as `run` through it
TickWith(run) ==
    /\ pc = "tick"
    /\ CASE mode = "Playing" -> TickPlaying(run)
         [] mode \in {"Seeking", "Scrubbing"} -> TickSeeking(run)
         [] mode = "Paused" -> TickPaused
    /\ pc' = AfterTick
    /\ UNCHANGED <<queue, now, sent, last_cmd, ui_vars, lib_vars>>

Tick == \E run \in DecoderRuns : TickWith(run)

\* a tick in which a decode_frame call whose result is kept returns a frame
FrameTick ==
    \E run \in DecoderRuns : DecodeWithCoax(run).f.some /\ TickWith(run)

(***************************************************************************)
(* The environment: the consumer's sends and the wall clock.               *)
(***************************************************************************)
\* cmd_tx.send(cmd) on the unbounded channel; a send to a worker that has
\* returned fails and is ignored
Send(c) ==
    /\ sent < MaxSends
    /\ Len(queue) < MaxQueue
    /\ sent' = sent + 1
    /\ queue' = IF pc = "exited" THEN queue ELSE Append(queue, c)
    /\ UNCHANGED <<worker_vars, pc, slot, strict_paused, now, hist_vars,
                   ui_vars, lib_vars>>

\* wall-clock time passes
Advance ==
    /\ now < MaxClockSteps * ClockStepMs
    /\ now' = now + ClockStepMs
    /\ UNCHANGED <<worker_vars, pc, queue, slot, strict_paused, sent,
                   hist_vars, ui_vars, lib_vars>>

WorkerNext == RecvCmd \/ DrainEnd \/ Tick

Next == WorkerNext \/ (\E c \in DecodeCmd : Send(c)) \/ Advance

Spec == Init /\ [][Next]_vars

\* The worker thread is scheduled, and a decoder that is asked again and
\* again eventually hands a frame to a call whose result is kept.
FairSpec == Spec /\ WF_vars(WorkerNext) /\ SF_vars(FrameTick)

(***************************************************************************)
(* The preview redraw (apps/desktop/src/preview/ui.rs, preview_ui): the    *)
(* DispatchController decides which commands to send to the worker of the  *)
(* active source, and the FrameSelector picks the frame to present.        *)
(* Durations derived from a frame rate are in microseconds, rounded down:  *)
(* a comparison of a whole number of microseconds against the bound is not *)
(* changed by the rounding.                                                *)
(***************************************************************************)
Abs(x) == IF x < 0 THEN 0 - x ELSE x
Max(a, b) == IF a >= b THEN a ELSE b
Min(a, b) == IF a <= b THEN a ELSE b

\* the sources the playhead may be over
Paths == {"A", "B"}
\* props.fps of the frames each source's worker publishes
ClipFps == [p \in Paths |-> IF p = "A" THEN 24 ELSE 5]
\* frame rate of the sequence
SeqFps == 10
\* playhead positions media_t, in ms
Targets == {1000, 1010, 1030}
\* instants at which the wall clock is read, in ms
TimeMarks == {0, 150, 650, 1600}
\* frames the worker of each source publishes
SlotFrames ==
    [p \in Paths |->
        IF p = "A" THEN {VideoFrameOut(1000, FALSE), VideoFrameOut(2000, TRUE)}
        ELSE {VideoFrameOut(1000, FALSE)}]

\* lower and upper clamp of the stale-seek timeout, in ms
AdaptiveFloorMs == 450
AdaptiveCeilMs == 1500
\* minimum interval before a drift re-anchor, in ms
ReanchorCooldownMs == 150

\* decode_mgr.take_latest(path): a copy of the content of the slot of the
\* worker of `path`
TakeLatest(path) == IF path = "A" THEN slot ELSE slot_b

\* clip_fps: the rate of the latest frame if there is one and its rate is
\* positive (and finite, as every rate the worker publishes is), else the
\* rate of the sequence
ClipFpsFrom(latest_fps, seq_fps) ==
    IF latest_fps.some /\ latest_fps.v > 0 THEN latest_fps.v ELSE seq_fps
ClipFpsOf(path, latest) ==
    ClipFpsFrom(IF latest.some THEN Some(ClipFps[path]) ELSE None, SeqFps)
\* frame_dur = 1 / clip_fps
FrameDurUs(fps) == 1000000 \div fps
\* epsilon = max(0.25 * frame_dur, 0.010)
EpsilonUs_NoFloor(fd) == fd \div 4
EpsilonUs(fd) == Max(fd \div 4, 10000)
\* adaptive_ms = (frame_dur * 1000 * 8).max(450).min(1500) as u128
AdaptiveMs(fd) == Min(Max((fd * 8) \div 1000, AdaptiveFloorMs), AdaptiveCeilMs)
\* tol = max(frame_dur, 0.020)
ToleranceUs(fd) == Max(fd, 20000)
\* max(0.5 * frame_dur, 0.015)
DriftThresholdUs(fd) == Max(fd \div 2, 15000)

\* the signature of this redraw differs from the one remembered
SignatureChanged_Always(k) == TRUE
SignatureChanged(k) == last_sent # Some(k)

\* need_seek: no seek pts remembered, or the target is farther than epsilon
\* from it
SeekNeeded_Always(t, fd) == TRUE
SeekNeeded(t, fd) ==
    IF last_seek_sent_pts.some
    THEN Abs(t - last_seek_sent_pts.v) * 1000 > EpsilonUs(fd)
    ELSE TRUE

\* waiting_for_accurate
WaitingForAccurate_Always(latest) == TRUE
WaitingForAccurate(latest) == IF latest.some THEN ~latest.v.accurate ELSE TRUE

\* stale_seek: a seek was requested longer ago than the adaptive timeout and
\* the slot holds no accurate frame
StaleSeek_Impatient(latest, fd) ==
    last_seek_request_at.some /\ WaitingForAccurate(latest)
StaleSeek(latest, fd) ==
    IF last_seek_request_at.some
    THEN IF WaitingForAccurate(latest)
         THEN now - last_seek_request_at.v > AdaptiveMs(fd)
         ELSE FALSE
    ELSE FALSE

\* a command of the redraw: to which source, and why
UiCmd(kind, path, c) == [kind |-> kind, path |-> path, cmd |-> c]

\* the remembered seek pts after a Play was dispatched
SeekPtsAfterPlay_Kept == last_seek_sent_pts
SeekPtsAfterPlay == None

\* `match self.engine.state` (ui.rs 162-231): the commands sent and the
\* dispatch memory left
Dispatch(st, path, t, fd, latest) ==
    IF st = "Playing"
    THEN
        LET k == [state |-> st, path |-> path]
            send == SignatureChanged(k)
        IN [cmds |-> IF send THEN <<UiCmd("play", path, PlayCmd(t, 1))>>
                     ELSE <<>>,
            last_sent |-> IF send THEN Some(k) ELSE last_sent,
            last_seek_sent_pts |-> IF send THEN SeekPtsAfterPlay
                                   ELSE last_seek_sent_pts,
            last_play_reanchor_time |->
                IF send THEN Some(now) ELSE last_play_reanchor_time,
            last_seek_request_at |-> last_seek_request_at,
            need |-> FALSE, stale |-> FALSE]
    ELSE
        LET need == SeekNeeded(t, fd)
            stale == IF st = "Paused" THEN StaleSeek(latest, fd) ELSE FALSE
            send == need \/ stale
        IN [cmds |-> IF send THEN <<UiCmd("seek", path, SeekCmd(t))>>
                     ELSE <<>>,
            last_sent |-> None,
            last_seek_sent_pts |-> IF send THEN Some(t) ELSE last_seek_sent_pts,
            last_play_reanchor_time |-> last_play_reanchor_time,
            last_seek_request_at |->
                IF send THEN Some(now) ELSE last_seek_request_at,
            need |-> need, stale |-> stale]

\* `let picked = ...` (ui.rs 247-259)
Pick_OnlyClose(st, strict, newest, t, tol) ==
    IF st = "Playing" \/ strict THEN newest
    ELSE IF newest.some /\ Abs(newest.v.pts - t) * 1000 <= tol THEN newest
    ELSE None
Pick_OnlyAccurate(st, strict, newest, t, tol) ==
    IF newest.some /\ (newest.v.accurate \/ ~strict) THEN newest ELSE None
Pick(st, strict, newest, t, tol) ==
    IF st = "Playing" THEN newest
    ELSE IF strict THEN newest
    ELSE IF newest.some /\ Abs(newest.v.pts - t) * 1000 <= tol THEN newest
    ELSE newest

\* a frame was presented outside playback: the seek request is forgotten
RequestAfterPick(st, picked, req) ==
    IF picked.some /\ st # "Playing" THEN None ELSE req

\* cooldown_ok
CooldownOk_Always(last) == TRUE
CooldownOk(last) ==
    IF last.some THEN now - last.v >= ReanchorCooldownMs ELSE TRUE

\* the drift re-anchor test (ui.rs 273-281)
Reanchors(st, picked, t, fd, last) ==
    /\ st = "Playing"
    /\ picked.some
    /\ Abs(picked.v.pts - t) * 1000 > DriftThresholdUs(fd)
    /\ CooldownOk(last)

\* what one redraw does, from the dispatch to the presentation
RedrawResult(st, path, t, strict) ==
    LET latest == TakeLatest(path)
        fd == FrameDurUs(ClipFpsOf(path, latest))
        d == Dispatch(st, path, t, fd, latest)
        picked == Pick(st, strict, latest, t, ToleranceUs(fd))
        re == Reanchors(st, picked, t, fd, d.last_play_reanchor_time)
    IN [cmds |-> d.cmds \o (IF re THEN <<UiCmd("reanchor", path, PlayCmd(t, 1))>>
                            ELSE <<>>),
        last_sent |-> d.last_sent,
        last_seek_sent_pts |-> d.last_seek_sent_pts,
        last_play_reanchor_time |->
            IF re THEN Some(now) ELSE d.last_play_reanchor_time,
        last_seek_request_at |->
            RequestAfterPick(st, picked, d.last_seek_request_at),
        need |-> d.need, stale |-> d.stale, picked |-> picked]

\* the commands of a redraw that go to the worker of `path`
RECURSIVE CmdsTo(_, _)
CmdsTo(cmds, path) ==
    IF cmds = <<>> THEN <<>>
    ELSE (IF Head(cmds).path = path THEN <<Head(cmds).cmd>> ELSE <<>>)
            \o CmdsTo(Tail(cmds), path)

\* one redraw of the preview over a video source
Redraw(st, path, t, strict) ==
    LET r == RedrawResult(st, path, t, strict) IN
    /\ last_sent' = r.last_sent
    /\ last_seek_sent_pts' = r.last_seek_sent_pts
    /\ last_play_reanchor_time' = r.last_play_reanchor_time
    /\ last_seek_request_at' = r.last_seek_request_at
    /\ ui_ev' = [n |-> 1 - ui_ev.n, state |-> st, path |-> path, t |-> t,
                 strict |-> strict, need |-> r.need, stale |-> r.stale,
                 cmds |-> r.cmds, picked |-> r.picked,
                 seek_at |-> IF \E i \in 1..Len(r.cmds) :
                                    r.cmds[i].kind = "seek"
                             THEN Some(now) ELSE ui_ev.seek_at]
    /\ UNCHANGED <<worker_vars, pc, slot, slot_b, strict_paused, now,
                   hist_vars, lib_vars>>

(***************************************************************************)
(* The preview over one source: redraws with any state, playhead and       *)
(* strictness, over a slot that the worker fills at any moment.            *)
(***************************************************************************)
\* a redraw over source A whose commands are left undelivered
UiRedraw ==
    \E st \in PlayState, t \in Targets, strict \in BOOLEAN :
        /\ Redraw(st, "A", t, strict)
        /\ UNCHANGED <<queue, sent, seeked>>

\* the worker of `path` publishes a frame
Publish(path) ==
    \E f \in SlotFrames[path] :
        /\ IF path = "A"
           THEN slot' = SlotStore(slot, f) /\ slot_b' = slot_b
           ELSE slot_b' = SlotStore(slot_b, f) /\ slot' = slot
        /\ UNCHANGED <<worker_vars, pc, queue, strict_paused, now, sent,
                       hist_vars, dispatch_vars, ui_ev, seeked, lib_vars>>

\* wall-clock time passes up to the next reading
Elapse ==
    \E m \in TimeMarks :
        /\ m > now
        /\ now' = m
        /\ UNCHANGED <<worker_vars, pc, queue, slot, strict_paused, sent,
                       hist_vars, ui_vars, lib_vars>>

UiNext == UiRedraw \/ Publish("A") \/ Elapse

UiSpec == Init /\ [][UiNext]_vars

(***************************************************************************)
(* The preview over two sources: the playhead moves between the clips of   *)
(* A and B, strict pause on, within one instant of the wall clock.         *)
(***************************************************************************)
\* the sources the commands of a redraw are Seeks to
SeekedBy(cmds) ==
    {cmds[i].path : i \in {j \in 1..Len(cmds) : cmds[j].kind = "seek"}}

\* a redraw over either source
SwitchRedraw ==
    \E st \in {"Paused", "Seeking", "Playing"}, path \in Paths,
       t \in Targets :
        /\ Redraw(st, path, t, TRUE)
        /\ seeked' = seeked \cup SeekedBy(RedrawResult(st, path, t, TRUE).cmds)
        /\ UNCHANGED <<queue, sent>>

SwitchNext == SwitchRedraw \/ (\E path \in Paths : Publish(path))

SwitchSpec == Init /\ [][SwitchNext]_vars

(***************************************************************************)
(* The epsilon of a redraw as a function of the frame rate of the slot's   *)
(* frame and of the rate of the sequence.                                  *)
(***************************************************************************)
\* props.fps of the frame in the slot (worker.rs 88-93: always positive)
FrameRates == {1, 5, 10, 12, 15, 24, 25, 30, 48, 50, 60, 120}
\* seq.fps.num.max(1) / seq.fps.den.max(1)
SeqRates == {1, 10, 24, 25, 30, 60, 96, 100}

EpsilonInit ==
    /\ InitWorker("drain")
    /\ InitUi
    /\ poisoned = FALSE
    /\ InitRing
    /\ InitClock
    /\ InitGst
    /\ eps_ev \in [latest_fps : {None} \cup {Some(f) : f \in FrameRates},
                    seq_fps : SeqRates, out : {None}]

\* ui.rs 152-160, epsilon in microseconds
ComputeEpsilon ==
    /\ ~eps_ev.out.some
    /\ eps_ev' = [eps_ev EXCEPT !.out =
            Some(EpsilonUs(FrameDurUs(
                    ClipFpsFrom(eps_ev.latest_fps, eps_ev.seq_fps))))]
    /\ UNCHANGED <<worker_vars, pc, queue, slot, strict_paused, now, sent,
                   hist_vars, slot_b, dispatch_vars, ui_ev, seeked, poisoned,
                   ring_vars, clock_vars, gst_vars>>

EpsilonSpec == EpsilonInit /\ [][ComputeEpsilon]_vars

(***************************************************************************)
(* A paused seek end to end: the preview stays Paused with strict pause on *)
(* over source A and a fixed playhead, and its commands reach the worker.  *)
(***************************************************************************)
\* the fixed playhead, in ms
PausedTarget == 1000

\* decode_mgr.send_cmd(path, cmd) for each command of the redraw
PausedRedraw ==
    /\ Redraw("Paused", "A", PausedTarget, TRUE)
    /\ LET cs == CmdsTo(RedrawResult("Paused", "A", PausedTarget, TRUE).cmds,
                        "A")
       IN /\ queue' = IF pc = "exited" THEN queue ELSE queue \o cs
          /\ sent' = sent + Len(cs)
    /\ UNCHANGED seeked

PausedNext == WorkerNext \/ PausedRedraw \/ Advance

PausedSpec == Init /\ [][PausedNext]_vars

\* The worker thread is scheduled, the decoder eventually hands over a
\* frame, and the preview is redrawn again and again (a repaint is
\* requested after every publication and every 150 ms while not playing).
PausedFairSpec ==
    PausedSpec /\ WF_vars(WorkerNext) /\ SF_vars(FrameTick)
        /\ WF_vars(PausedRedraw)

(***************************************************************************)
(* The decoder's FrameRing (native-decoder/src/gstreamer_backend.rs        *)
(* 502-532): a Vec of frames in insertion order, of which the model keeps  *)
(* the timestamps, in tenths of a second.                                  *)
(***************************************************************************)
\* capacity the ring is built with
RingCap == 3
\* timestamps of the frames pushed (finite: gstreamer_backend.rs 320-323)
RingPts == {10, 20, 35, 50, 60}
\* targets asked for
RingTargets == {10, 30, 60}

\* Vec::remove(i): the elements after i move down by one
RemoveAt(r, i) == SubSeq(r, 1, i - 1) \o SubSeq(r, i + 1, Len(r))

\* FrameRing::push
RingPush_Unbounded(r, f) == Append(r, f)
RingPush(r, f) ==
    Append(IF Len(r) >= RingCap THEN RemoveAt(r, 1) ELSE r, f)

\* the candidates of the scan: frames with pts <= target
AtOrBefore(r, target) == {i \in 1..Len(r) : r[i] <= target}

\* best_idx after the scan: the candidate nearest to the target, the
\* earliest of them if several are as near (dt < best_dt is strict)
BestIdx_Nearest(r, target) ==
    CHOOSE i \in 1..Len(r) :
        \A j \in 1..Len(r) :
            \/ Abs(target - r[i]) < Abs(target - r[j])
            \/ (Abs(target - r[i]) = Abs(target - r[j]) /\ i <= j)
BestIdx(r, target) ==
    CHOOSE i \in AtOrBefore(r, target) :
        \A j \in AtOrBefore(r, target) :
            \/ target - r[i] < target - r[j]
            \/ (target - r[i] = target - r[j] /\ i <= j)

\* `else: return the oldest`
FallbackIdx_Newest(r) == Len(r)
FallbackIdx(r) == 1

\* the index pop_nearest_at_or_before removes from a ring that is not empty
PopIdx(r, target) ==
    IF AtOrBefore(r, target) # {} THEN BestIdx(r, target) ELSE FallbackIdx(r)

\* FrameRing::pop_nearest_at_or_before: the frame returned and the ring left
RingPop(r, target) ==
    IF r = <<>> THEN [out |-> None, ring |-> r]
    ELSE LET i == PopIdx(r, target)
         IN [out |-> Some(r[i]), ring |-> RemoveAt(r, i)]

RingRest ==
    UNCHANGED <<worker_vars, pc, queue, slot, strict_paused, now, sent,
                hist_vars, ui_vars, poisoned, clock_vars, eps_ev, gst_vars>>

PushStep ==
    \E f \in RingPts :
        /\ ring' = RingPush(ring, f)
        /\ ring_ev' = [op |-> "push", arg |-> f, before |-> ring, out |-> None]
        /\ RingRest

PopStep ==
    \E target \in RingTargets :
        /\ ring' = RingPop(ring, target).ring
        /\ ring_ev' = [op |-> "pop", arg |-> target, before |-> ring,
                       out |-> RingPop(ring, target).out]
        /\ RingRest

\* FrameRing::clear
ClearStep ==
    /\ ring' = <<>>
    /\ ring_ev' = [op |-> "clear", arg |-> 0, before |-> ring, out |-> None]
    /\ RingRest

RingNext == PushStep \/ PopStep \/ ClearStep

RingSpec == Init /\ [][RingNext]_vars

(***************************************************************************)
(* The worker with a slot whose mutex can be poisoned: a thread that       *)
(* panics while it holds the slot's lock leaves the mutex poisoned, and    *)
(* every later lock() returns Err.                                         *)
(***************************************************************************)
Poison ==
    /\ ~poisoned
    /\ poisoned' = TRUE
    /\ UNCHANGED <<worker_vars, pc, queue, slot, strict_paused, now, sent,
                   hist_vars, ui_vars, ring_vars, clock_vars, eps_ev,
                   gst_vars>>

PoisonNext == Next \/ Poison

PoisonSpec == Init /\ [][PoisonNext]_vars

(***************************************************************************)
(* The worker from the start of its thread: create_decoder succeeds or     *)
(* fails (worker.rs 71-84) while the paused preview already redraws and    *)
(* sends.                                                                  *)
(***************************************************************************)
\* Ok(d) => d; Err(e) => { eprintln!(..); return; }
AfterCreate_Continues(ok) == "drain"
AfterCreate(ok) == IF ok THEN "drain" ELSE "exited"

CreateDecoder ==
    /\ pc = "start"
    /\ \E ok \in BOOLEAN :
        /\ pc' = AfterCreate(ok)
        /\ ev' = Quiet(IF ok THEN "created" ELSE "create_failed")
    /\ UNCHANGED <<worker_vars, queue, slot, strict_paused, now, sent,
                   seek_hist, issued, last_cmd, pause_deferred, ui_vars,
                   lib_vars>>

StartInit == InitWorker("start") /\ InitUi /\ InitLib

\* the steps of the worker thread
ThreadNext == CreateDecoder \/ WorkerNext

StartNext == ThreadNext \/ PausedRedraw \/ Advance

StartSpec == StartInit /\ [][StartNext]_vars

(***************************************************************************)
(* The playback clock and the play/pause toggles of App::update (app.rs    *)
(* 785-842), followed by the redraw's reading of the playhead (ui.rs       *)
(* 19-27).  Positions and instants are in ms; with SeqFps frames a second  *)
(* every frame starts on a whole ms.                                       *)
(***************************************************************************)
\* seq.duration_in_frames
DurationInFrames == 5

\* PlaybackClock::now
ClockNow(c, t) ==
    IF c.playing THEN c.anchor_position + (t - c.anchor_instant) * c.rate
    ELSE c.anchor_position
\* PlaybackClock::play
ClockPlay(c, position, t) ==
    [c EXCEPT !.anchor_position = position, !.anchor_instant = t,
              !.playing = TRUE]
\* PlaybackClock::pause
ClockPause(c, position) ==
    [c EXCEPT !.anchor_position = position, !.playing = FALSE]

\* current_sec = playhead / seq_fps
CurrentSec(head) == (head * 1000) \div SeqFps

\* engine.state once aligned with the clock (app.rs 806-809)
EngineState(c) == IF c.playing THEN "Playing" ELSE "Paused"

\* a call of the clock as the toggles make it: the position passed, and the
\* playhead when it was passed
ClockCall(op, position, head) == [op |-> op, pos |-> position, head |-> head]

\* Space: pause at current_sec, or rewind the playhead at the end of the
\* sequence and play at current_sec
SpaceToggle(s) ==
    LET current_sec == CurrentSec(s.playhead) IN
    IF s.clock.playing
    THEN [clock |-> ClockPause(s.clock, current_sec),
          playhead |-> s.playhead,
          calls |-> Append(s.calls,
                           ClockCall("pause", current_sec, s.playhead))]
    ELSE LET head == IF s.playhead >= DurationInFrames THEN 0
                     ELSE s.playhead
         IN [clock |-> ClockPlay(s.clock, current_sec, now),
             playhead |-> head,
             calls |-> Append(s.calls, ClockCall("play", current_sec, head))]

\* the Play/Pause button
ButtonToggle(s) ==
    LET current_sec == CurrentSec(s.playhead) IN
    IF EngineState(s.clock) = "Playing"
    THEN [clock |-> ClockPause(s.clock, current_sec),
          playhead |-> s.playhead,
          calls |-> Append(s.calls,
                           ClockCall("pause", current_sec, s.playhead))]
    ELSE [clock |-> ClockPlay(s.clock, current_sec, now),
          playhead |-> s.playhead,
          calls |-> Append(s.calls,
                           ClockCall("play", current_sec, s.playhead))]

\* preview_ui: floor of now * fps while Playing, nearest frame otherwise
PlayheadFrame(st, t) ==
    IF st = "Playing" THEN (t * SeqFps) \div 1000
    ELSE (t * SeqFps + 500) \div 1000

\* one App::update: the Space key, the button, then the preview
ClockUpdate ==
    \E space \in BOOLEAN, click \in BOOLEAN :
        LET s0 == [clock |-> clock, playhead |-> playhead, calls |-> <<>>]
            s1 == IF space THEN SpaceToggle(s0) ELSE s0
            s2 == IF click THEN ButtonToggle(s1) ELSE s1
        IN
        /\ clock' = s2.clock
        /\ playhead' = PlayheadFrame(EngineState(s2.clock),
                                     ClockNow(s2.clock, now))
        /\ clock_ev' = [n |-> 1 - clock_ev.n, calls |-> s2.calls,
                        was |-> ClockNow(clock, now), at |-> now,
                        prev |-> [calls |-> clock_ev.calls,
                                  was |-> clock_ev.was, at |-> clock_ev.at]]
        /\ UNCHANGED <<worker_vars, pc, queue, slot, strict_paused, now,
                       sent, hist_vars, ui_vars, poisoned, ring_vars, eps_ev,
                       gst_vars>>

ClockNext == ClockUpdate \/ Elapse

ClockSpec == Init /\ [][ClockNext]_vars

(***************************************************************************)
(* The GstDecoder (gstreamer_backend.rs 383-484) over its FrameRing and a  *)
(* pipeline that hands out the frames of a file in pts order.  Timestamps  *)
(* are in ms.  The ring's frames carry a history mark: whether they were   *)
(* pushed before the decoder's last seek.                                  *)
(***************************************************************************)
\* the pts of the file's frames, and which of them are keyframes
FilePts == <<0, 100, 200, 300, 400>>
KeyFrames == {1, 3, 5}
\* timestamps asked for
DecodeTargets == {0, 100, 350, 400}
\* samples that arrive within one decode_frame call in streaming mode (the
\* call makes 6 attempts of 5 ms)
MaxPull == 2
\* `(timestamp - last_out).abs() > 0.25`
BigJumpMs == 250

\* the frame an ACCURATE seek to t lands on: the last frame at or before t
AccurateLanding(t) ==
    LET at == {i \in 1..Len(FilePts) : FilePts[i] <= t}
    IN IF at = {} THEN 1 ELSE CHOOSE i \in at : \A j \in at : j <= i
\* the frame a KEY_UNIT seek to t lands on: the last keyframe at or before t
KeyUnitLanding(t) ==
    LET at == {i \in KeyFrames : FilePts[i] <= t}
    IN IF at = {} THEN 1 ELSE CHOOSE i \in at : \A j \in at : j <= i

\* need_seek of decode_frame
NeedSeek_OnAnyJump(r, last_out, timestamp) ==
    r = <<>> /\ (~last_out.some \/ timestamp # last_out.v)
NeedSeek(r, last_out, timestamp) ==
    LET ring_empty == Len(r) = 0
        never_output == ~last_out.some
        big_jump == last_out.some /\ Abs(timestamp - last_out.v) > BigJumpMs
    IN ring_empty /\ (never_output \/ big_jump)

\* self.ring.clear() of a seek
RingAfterSeek_Kept(r) == r
RingAfterSeek(r) == <<>>

\* fill_ring_from_sink: the samples pulled, n of them at most.  A streaming
\* pipeline hands out the next frames of the file; a paused one holds the
\* frame it is at as its preroll, and the loop stops at the first push.
Pulled(strict, n, next) ==
    LET left == Len(FilePts) + 1 - next
        k == Min(IF strict THEN Min(n, 1) ELSE n, left)
    IN [i \in 1..k |-> FilePts[next + i - 1]]

RECURSIVE PushAll(_, _)
PushAll(r, fs) ==
    IF fs = <<>> THEN r ELSE PushAll(RingPush(r, Head(fs)), Tail(fs))

\* the history marks of a ring after the frames fs are pushed into it
RECURSIVE MarkAll(_, _)
MarkAll(marks, fs) ==
    IF fs = <<>> THEN marks
    ELSE MarkAll(Append(IF Len(marks) >= RingCap THEN Tail(marks)
                        ELSE marks, FALSE), Tail(fs))

\* every frame a seek leaves in the ring was pushed before it
MarkOld(r) == [i \in 1..Len(r) |-> TRUE]

GstRest ==
    UNCHANGED <<worker_vars, pc, queue, slot, now, sent, hist_vars, ui_vars,
                poisoned, ring_ev, clock_vars, eps_ev>>

\* the history kept from call to call: the highest pts returned and the
\* last timestamp asked since the last seek, and whether the timestamps
\* asked since then never went down
NoRun == [high |-> None, asked |-> None, mono |-> TRUE]

\* the decoder as a call finds it
Was ==
    [ring |-> ring, strict |-> strict_paused,
     last_out_pts |-> gst.last_out_pts]

\* NativeVideoDecoder::decode_frame(timestamp): n samples arrive, and the
\* internal seek, if one is made, succeeds or fails
DecodeFrame ==
    \E timestamp \in DecodeTargets, n \in 0..MaxPull, seek_ok \in BOOLEAN :
        LET seeks == /\ NeedSeek(ring, gst.last_out_pts, timestamp)
                     /\ ~strict_paused
            run == IF seeks THEN NoRun ELSE gst_ev.run
            r0 == IF seeks THEN RingAfterSeek(ring) ELSE ring
            old0 == IF seeks THEN MarkOld(r0) ELSE gst_ev.old
            next0 == IF seeks THEN AccurateLanding(timestamp) ELSE gst.next
            fs == Pulled(strict_paused, n, next0)
            r1 == PushAll(r0, fs)
            old1 == MarkAll(old0, fs)
            pop == RingPop(r1, timestamp)
        IN
        /\ IF seeks /\ ~seek_ok
           THEN \* `self.seek_to_internal(timestamp)?` returns the error
                /\ UNCHANGED <<ring, gst>>
                /\ gst_ev' = [op |-> "decode", target |-> timestamp,
                              seeked |-> TRUE, out |-> None, was |-> Was,
                              at_seek |-> ring, old |-> gst_ev.old,
                              out_old |-> FALSE, high_was |-> None,
                              run |-> gst_ev.run]
           ELSE /\ ring' = pop.ring
                /\ gst' = [last_out_pts |-> IF pop.out.some THEN pop.out
                                            ELSE gst.last_out_pts,
                           next |-> IF strict_paused THEN next0
                                    ELSE next0 + Len(fs)]
                /\ gst_ev' =
                     [op |-> "decode", target |-> timestamp,
                      seeked |-> seeks, out |-> pop.out, was |-> Was,
                      at_seek |-> IF seeks THEN r0 ELSE <<>>,
                      old |-> IF r1 = <<>> THEN old1
                              ELSE RemoveAt(old1, PopIdx(r1, timestamp)),
                      out_old |-> IF r1 = <<>> THEN FALSE
                                  ELSE old1[PopIdx(r1, timestamp)],
                      high_was |-> run.high,
                      run |-> [high |-> IF ~pop.out.some THEN run.high
                                        ELSE IF ~run.high.some THEN pop.out
                                        ELSE Some(Max(run.high.v, pop.out.v)),
                               asked |-> Some(timestamp),
                               mono |-> /\ run.mono
                                        /\ run.asked.some =>
                                               run.asked.v <= timestamp]]
        /\ UNCHANGED strict_paused
        /\ GstRest

\* what an explicit seek leaves: strict-paused mode, the ring cleared, the
\* pipeline at `landing` if the seek succeeded
ExplicitSeek(op, timestamp, landing, seek_ok) ==
    /\ strict_paused' = TRUE
    /\ ring' = RingAfterSeek(ring)
    /\ gst' = [gst EXCEPT !.next = IF seek_ok THEN landing ELSE @]
    /\ gst_ev' = [op |-> op, target |-> timestamp, seeked |-> TRUE,
                  out |-> None, was |-> Was, at_seek |-> ring',
                  old |-> MarkOld(ring'), out_old |-> FALSE,
                  high_was |-> None, run |-> NoRun]
    /\ GstRest

\* NativeVideoDecoder::seek_to
SeekTo ==
    \E timestamp \in DecodeTargets, seek_ok \in BOOLEAN :
        ExplicitSeek("seek_to", timestamp, AccurateLanding(timestamp),
                     seek_ok)

\* NativeVideoDecoder::seek_to_keyframe
SeekToKeyframe ==
    \E timestamp \in DecodeTargets, seek_ok \in BOOLEAN :
        ExplicitSeek("seek_to_keyframe", timestamp,
                     KeyUnitLanding(timestamp), seek_ok)

\* NativeVideoDecoder::set_strict_paused
SetStrictPaused ==
    \E strict \in BOOLEAN :
        /\ strict_paused' = strict
        /\ gst_ev' = [gst_ev EXCEPT !.op = "set_strict_paused",
                                    !.seeked = FALSE, !.out = None,
                                    !.was = Was, !.at_seek = <<>>,
                                    !.out_old = FALSE, !.high_was = None]
        /\ UNCHANGED <<ring, gst>>
        /\ GstRest

GstNext == DecodeFrame \/ SeekTo \/ SeekToKeyframe \/ SetStrictPaused

GstSpec == Init /\ [][GstNext]_vars

(***************************************************************************)
(* A preview session over source A with strict pause on and a fixed        *)
(* playhead: the user toggles play and pause (app.rs 785-809), the preview *)
(* is redrawn in the state the clock gives, and its commands reach the     *)
(* worker.                                                                 *)
(***************************************************************************)
\* Space: the clock, and with it engine.state, goes from paused to playing
\* or back; update() draws the preview in every frame, so that a redraw
\* lies between two key presses
SessionToggle ==
    /\ sent < MaxSends
    /\ ui_ev.state = EngineState(clock)
    /\ clock' = SpaceToggle([clock |-> clock, playhead |-> playhead,
                             calls |-> <<>>]).clock
    /\ UNCHANGED <<worker_vars, pc, queue, slot, strict_paused, now, sent,
                   hist_vars, ui_vars, poisoned, ring_vars, playhead,
                   clock_ev, eps_ev, gst_vars>>

\* preview_ui in the state of the clock; decode_mgr.send_cmd(path, cmd) for
\* each command of the redraw
SessionRedraw ==
    LET st == EngineState(clock)
        cs == CmdsTo(RedrawResult(st, "A", PausedTarget, TRUE).cmds, "A")
    IN /\ Redraw(st, "A", PausedTarget, TRUE)
       /\ queue' = IF pc = "exited" THEN queue ELSE queue \o cs
       /\ sent' = sent + Len(cs)
       /\ UNCHANGED seeked

SessionNext == WorkerNext \/ SessionToggle \/ SessionRedraw \/ Advance

SessionSpec == Init /\ [][SessionNext]_vars

\* The worker thread is scheduled, the decoder eventually hands over a
\* frame, and the preview is redrawn again and again (a repaint is
\* requested after every publication and at least every 150 ms).
SessionFairSpec ==
    SessionSpec /\ WF_vars(WorkerNext) /\ SF_vars(FrameTick)
        /\ []<><<SessionRedraw>>_vars

(***************************************************************************)
(* Properties of the decode worker.                                        *)
(***************************************************************************)
\* the step is a step of the worker thread
IsWorkerStep == pc' # pc \/ Len(queue') < Len(queue)

\* the step is the worker handling a command of type t
Handles(t) ==
    /\ pc = "drain"
    /\ queue # <<>>
    /\ Head(queue).type = t
    /\ Len(queue') < Len(queue)

\* the step is a tick of the worker
IsTick == pc = "tick" /\ pc' # pc

\* the step made no call to the decoder
NoDecoderCall ==
    /\ ev'.decodes = 0
    /\ ev'.seeks = <<>>
    /\ ~ev'.ssp
    /\ strict_paused' = strict_paused

\* where a seek stands after one more event of its history
StageStep(st, e) ==
    CASE st \in {"new", "key"} /\ e = "seek_to_keyframe" -> "key"
      [] st = "key" /\ e = "approx" -> "approx"
      [] st \in {"approx", "precise"} /\ e = "seek_to" -> "precise"
      [] st = "precise" /\ e = "accurate" -> "done"
      [] OTHER -> "bad"

RECURSIVE StageAfter(_, _)
StageAfter(h, st) ==
    IF h = <<>> THEN st ELSE StageAfter(Tail(h), StageStep(st, Head(h)))

\* C1: two-stage seek ordering.  For every Seek the worker processes, the
\* events of that seek come in the order: key-unit seek(s), a frame
\* published with accurate=false, precise seek(s), a frame published with
\* accurate=true.  (Stated as claimed; the code violates it.)
C1_TwoStageOrder == StageAfter(seek_hist, "new") # "bad"

\* C2: a Pause processed while a seek is in flight leaves the mode as it is,
\* and the mode does not become Paused until a frame with accurate=true has
\* been published by the seek, unless a later Play cancels the seek.
C2_PauseDeferred ==
    pause_deferred => (mode = "Seeking" /\ need_seek_decode)

\* C2 witness: a Pause was deferred, the approximate frame is out, and the
\* worker is still Seeking.
C2_Witness ==
    /\ pause_deferred
    /\ mode = "Seeking"
    /\ approx_shown
    /\ slot.some
    /\ ~slot.v.accurate

\* no further command arrives
NoMoreCmds == queue = <<>> /\ sent = MaxSends

\* the accurate frame of a seek is out and the worker is Paused
SeekDone ==
    /\ mode = "Paused"
    /\ ~need_seek_decode
    /\ slot.some
    /\ slot.v.accurate
    /\ seek_hist # <<>>
    /\ seek_hist[Len(seek_hist)] = "accurate"

\* C3: seek completion.  Once a Seek has been processed by a running worker
\* and no further command arrives, the worker eventually publishes a frame
\* with accurate=true and is Paused with need_seek_decode false.
C3_SeekCompletes ==
    (need_seek_decode /\ running /\ NoMoreCmds) ~> SeekDone

\* C3 witness: the last command processed was a Seek, nothing more arrived,
\* and the seek is done.
C3_Witness == last_cmd = "Seek" /\ running /\ NoMoreCmds /\ SeekDone

\* C4: processing Seek{target} sets mode to Seeking from any mode and the
\* anchor to target; the mode is not Playing as long as Seek is the last
\* command processed; and a Play processed next sets mode Playing and
\* re-anchors at its own start_pts.
C4_SeekForcesSeeking ==
    /\ [][Handles("Seek") =>
            /\ mode' = "Seeking"
            /\ anchor_pts' = Head(queue).target_pts]_vars
    /\ [][last_cmd' = "Seek" => mode' # "Playing"]_vars
    /\ [][(Handles("Play") /\ last_cmd = "Seek") =>
            /\ mode' = "Playing"
            /\ anchor_pts' = Head(queue).start_pts
            /\ anchor_t' = now]_vars

\* C4 witness: a Seek has just been processed by a worker that was Playing.
C4_Witness ==
    /\ ev.kind = "cmd"
    /\ last_cmd = "Seek"
    /\ ev.from = "Playing"
    /\ mode = "Seeking"

\* C5: a Play processed while the mode is Playing changes only rate.
C5_PlayWhilePlaying ==
    [][(Handles("Play") /\ mode = "Playing") =>
            /\ rate' = Head(queue).rate
            /\ UNCHANGED <<mode, anchor_pts, anchor_t, running,
                           need_seek_decode, last_seek_target,
                           seek_started_at, approx_shown, slot,
                           strict_paused>>]_vars

\* C5 witness: a Play with another rate has just been processed by a worker
\* that was Playing, later than its anchor instant.
C5_Witness ==
    /\ ev.kind = "cmd"
    /\ last_cmd = "Play"
    /\ ev.from = "Playing"
    /\ rate = 2
    /\ now > anchor_t

\* C6: a Play processed while the mode is Paused or Seeking leaves mode
\* Playing, the anchor at start_pts, and no two-stage-seek state pending.
\* (Stated as claimed; the code violates it.)
C6_PlayClearsSeek ==
    [][(Handles("Play") /\ mode # "Playing") =>
            /\ mode' = "Playing"
            /\ anchor_pts' = Head(queue).start_pts
            /\ ~need_seek_decode'
            /\ last_seek_target' = None
            /\ seek_started_at' = None
            /\ ~approx_shown']_vars

\* C7: once Stop has been dequeued the worker calls the decoder no more,
\* writes the slot no more and applies no further command.
\* (Stated as claimed; the code violates it.)
C7_StopImmediate ==
    [][(~running /\ IsWorkerStep) =>
            /\ NoDecoderCall
            /\ slot' = slot
            /\ Len(queue') = Len(queue)]_vars

\* a Stop waits in the channel
StopQueued == \E i \in 1..Len(queue) : queue[i].type = "Stop"

\* C8: after Stop is enqueued the worker loop eventually exits.
C8_StopTerminates == StopQueued ~> (pc = "exited")

\* C8 witness: the worker has exited in the middle of a seek, a Pause
\* deferred.
C8_Witness ==
    /\ pc = "exited"
    /\ mode = "Seeking"
    /\ need_seek_decode
    /\ pause_deferred

\* C9: a step of the worker that starts and ends in Paused (a Paused tick,
\* the end of a drain, a Pause or a Stop) calls the decoder not at all and
\* leaves the slot as it is.
C9_PausedIdle ==
    [][(IsWorkerStep /\ mode = "Paused" /\ mode' = "Paused") =>
            /\ NoDecoderCall
            /\ slot' = slot]_vars

\* C9 witness: a Paused tick has run and the slot holds a published frame.
C9_Witness ==
    /\ ev.kind = "tick"
    /\ ev.from = "Paused"
    /\ mode = "Paused"
    /\ slot.some

\* the seek of the current stage is older than the stall timeout
Stalled ==
    /\ seek_started_at.some
    /\ now - seek_started_at.v > StallTimeoutMs

\* C10: seek coalescing.  While a seek is in flight, a tick whose target is
\* the target of the last seek call issued for the current stage issues no
\* new seek call (unless the seek has stalled).
\* (Stated as claimed; the code violates it.)
C10_SeekCoalesced ==
    [][(/\ IsTick
        /\ mode = "Seeking"
        /\ need_seek_decode
        /\ issued = Some(StageSeek(anchor_pts))
        /\ ~Stalled) => ev'.seeks = <<>>]_vars

(***************************************************************************)
(* Properties of the LatestFrameSlot and of the preview redraw.            *)
(***************************************************************************)
\* the step is a redraw of the preview
IsRedraw == ui_ev'.n # ui_ev.n

\* the redraw recorded in e sent a command of this kind
SentKind(e, kind) == \E i \in 1..Len(e.cmds) : e.cmds[i].kind = kind

\* C11: the slot holds at most one frame; a tick that publishes a frame
\* leaves exactly that frame in the slot, whatever was there; no other step
\* changes the slot, a redraw's read in particular leaves it as it is and
\* returns its content, which is therefore the most recent frame written.
C11_SlotOverwrite ==
    [][/\ slot' = None \/ slot' = Some(slot'.v)
       /\ (IsTick /\ ev'.out.some) => slot' = ev'.out
       /\ ~(IsTick /\ ev'.out.some) => slot' = slot
       /\ IsRedraw => ui_ev'.picked = slot]_vars
\* a redraw has read the accurate frame that replaced the approximate one
C11_Witness ==
    /\ seek_hist = <<"seek_to_keyframe", "approx", "seek_to", "accurate">>
    /\ slot.some
    /\ slot.v.accurate
    /\ ui_ev.picked = slot

\* C12: a redraw in Playing sends the signature-gated Play exactly when the
\* redraw before it was not a redraw in Playing over the same path: once at
\* the start of a run of Playing redraws over one path, and again only
\* after the state left Playing or the path changed.  No other redraw
\* sends it.
C12_PlayOncePerRun ==
    [][IsRedraw =>
        /\ ui_ev'.state = "Playing" =>
            (SentKind(ui_ev', "play") <=>
                ~(ui_ev.state = "Playing" /\ ui_ev.path = ui_ev'.path))
        /\ ui_ev'.state # "Playing" => ~SentKind(ui_ev', "play")
        /\ Cardinality({i \in 1..Len(ui_ev'.cmds) :
                            ui_ev'.cmds[i].kind = "play"}) <= 1]_vars
\* a later redraw of a Playing run: the signature is remembered, no Play
C12_Witness ==
    /\ ui_ev.state = "Playing"
    /\ ~SentKind(ui_ev, "play")
    /\ last_sent = Some([state |-> "Playing", path |-> ui_ev.path])

\* a distance of d ms exceeds epsilon = max(a quarter of a frame, 10 ms) at
\* this frame rate
BeyondEpsilon(d, fps) == d > 10 /\ d * 4 * fps > 1000

\* C13: a redraw in Seeking or Scrubbing sends Seek{target} iff no seek pts
\* is remembered or the target is farther than epsilon from it; when it
\* sends, the remembered pts becomes the target; when it does not, the
\* remembered pts is unchanged.
C13_SeekGate ==
    [][(IsRedraw /\ ui_ev'.state \in {"Seeking", "Scrubbing"}) =>
        LET t == ui_ev'.t
            fps == ClipFpsOf(ui_ev'.path, TakeLatest(ui_ev'.path))
            send == \/ ~last_seek_sent_pts.some
                    \/ BeyondEpsilon(Abs(t - last_seek_sent_pts.v), fps)
        IN /\ send =>
                /\ ui_ev'.cmds = <<UiCmd("seek", ui_ev'.path, SeekCmd(t))>>
                /\ last_seek_sent_pts' = Some(t)
           /\ ~send =>
                /\ ui_ev'.cmds = <<>>
                /\ last_seek_sent_pts' = last_seek_sent_pts]_vars
\* a Seeking redraw whose target moved, but within epsilon: nothing sent
C13_Witness ==
    /\ ui_ev.state \in {"Seeking", "Scrubbing"}
    /\ ui_ev.cmds = <<>>
    /\ last_seek_sent_pts.some
    /\ last_seek_sent_pts.v # ui_ev.t

\* e ms is longer than the adaptive timeout: 8 frame durations at this
\* frame rate, clamped to [450, 1500] ms
BeyondAdaptive(e, fps) == e > 1500 \/ (e > 450 /\ e * fps > 8000)

\* C14, as claimed: of two successive redraws in non-Playing states whose
\* targets are within epsilon of each other, at most one sends a command.
C14_AtMostOneCommand ==
    [][(/\ IsRedraw
        /\ ui_ev.state \in {"Paused", "Seeking", "Scrubbing"}
        /\ ui_ev'.state \in {"Paused", "Seeking", "Scrubbing"}
        /\ ui_ev'.path = ui_ev.path
        /\ ~BeyondEpsilon(Abs(ui_ev'.t - ui_ev.t),
                          ClipFpsOf(ui_ev'.path, TakeLatest(ui_ev'.path)))
        /\ ui_ev.cmds # <<>>)
        => ui_ev'.cmds = <<>>]_vars

\* C14, amended: a redraw in a non-Playing state whose target is within
\* epsilon of the remembered seek pts sends nothing and leaves the memory
\* of the pts alone, unless it is a Paused redraw made longer than the
\* adaptive timeout after the remembered seek request while the slot holds
\* no accurate frame.
C14_EpsilonIdempotence ==
    [][(/\ IsRedraw
        /\ ui_ev'.state \in {"Paused", "Seeking", "Scrubbing"}
        /\ last_seek_sent_pts.some
        /\ ~BeyondEpsilon(Abs(ui_ev'.t - last_seek_sent_pts.v),
                          ClipFpsOf(ui_ev'.path, TakeLatest(ui_ev'.path))))
        => \/ /\ ui_ev'.cmds = <<>>
              /\ last_seek_sent_pts' = last_seek_sent_pts
           \/ /\ ui_ev'.state = "Paused"
              /\ last_seek_request_at.some
              /\ BeyondAdaptive(now - last_seek_request_at.v,
                    ClipFpsOf(ui_ev'.path, TakeLatest(ui_ev'.path)))
              /\ ~(TakeLatest(ui_ev'.path).some
                    /\ TakeLatest(ui_ev'.path).v.accurate)]_vars
\* long after the last command, a Paused redraw whose target moved within
\* epsilon sends nothing
C14_Witness ==
    /\ ui_ev.state = "Paused"
    /\ ui_ev.cmds = <<>>
    /\ last_seek_sent_pts.some
    /\ last_seek_sent_pts.v # ui_ev.t
    /\ now = 1600
    /\ last_seek_request_at = None

\* C15: a Paused redraw made longer than the adaptive timeout after the
\* last Seek request, finding the slot's frame still approximate, re-sends
\* the Seek, even with the target within epsilon; a Paused redraw that
\* finds an accurate frame and the target within epsilon sends nothing.
C15_StaleSeekResend ==
    [][(IsRedraw /\ ui_ev'.state = "Paused") =>
        LET latest == TakeLatest(ui_ev'.path)
            fps == ClipFpsOf(ui_ev'.path, latest)
        IN /\ (/\ ui_ev.seek_at.some
               /\ BeyondAdaptive(now - ui_ev.seek_at.v, fps)
               /\ latest.some
               /\ ~latest.v.accurate)
                => SentKind(ui_ev', "seek")
           /\ (/\ latest.some
               /\ latest.v.accurate
               /\ last_seek_sent_pts.some
               /\ ~BeyondEpsilon(Abs(ui_ev'.t - last_seek_sent_pts.v), fps))
                => ui_ev'.cmds = <<>>]_vars

\* C16: the dispatch memory is per source: a redraw in Paused or Seeking
\* over a source that has never been sent a Seek sends it one, whatever
\* was sent to the other source.
C16_PerSourceMemory ==
    [][(/\ IsRedraw
        /\ ui_ev'.state \in {"Paused", "Seeking"}
        /\ ui_ev'.path \notin seeked)
        => ui_ev'.cmds =
            <<UiCmd("seek", ui_ev'.path, SeekCmd(ui_ev'.t))>>]_vars

\* a distance of d ms is within the tolerance max(one frame, 20 ms) at this
\* frame rate
WithinTolerance(d, fps) == d <= 20 \/ d * fps <= 1000

\* the redraw recorded in e was made outside playback with strict pause off
NonStrict(e) == e.state \in {"Paused", "Seeking", "Scrubbing"} /\ ~e.strict

BeyondDrift(d, fps) == d > 15 /\ d * 2 * fps > 1000

\* the Play commands, of either kind, of the redraw recorded in e
Plays(e) == {i \in 1..Len(e.cmds) : e.cmds[i].kind \in {"play", "reanchor"}}

\* at least 150 ms have passed since the last Play of either kind
\* (last_play_reanchor_time is set at every Play and never cleared)
CooledDown ==
    last_play_reanchor_time.some => now - last_play_reanchor_time.v >= 150

\* C20, as claimed: a Play of either kind is never sent less than 150 ms
\* after the previous Play, and a redraw never sends two.
C20_PlaysSpaced ==
    [][IsRedraw =>
        /\ Plays(ui_ev') # {} => CooledDown
        /\ Cardinality(Plays(ui_ev')) <= 1]_vars

\* C20, amended: a re-anchor Play is sent only by a Playing redraw whose
\* presented frame is farther from the target than max(half a frame, 15 ms)
\* and only when 150 ms have passed since the last Play of either kind, and
\* such a redraw that sends no signature-gated Play does send it; a redraw
\* never sends two Plays.  (The signature-gated Play knows no cooldown.)
C20_ReanchorCooldown ==
    [][IsRedraw =>
        LET e == ui_ev'
            fps == ClipFpsOf(e.path, TakeLatest(e.path))
            drift == /\ e.state = "Playing"
                     /\ e.picked.some
                     /\ BeyondDrift(Abs(e.picked.v.pts - e.t), fps)
        IN /\ SentKind(e, "reanchor") =>
                (drift /\ CooledDown /\ last_play_reanchor_time.some)
           /\ (drift /\ CooledDown /\ ~SentKind(e, "play")) =>
                SentKind(e, "reanchor")
           /\ Cardinality(Plays(e)) <= 1]_vars
\* a re-anchor Play has just been sent
C20_Witness ==
    /\ SentKind(ui_ev, "reanchor")
    /\ last_play_reanchor_time = Some(now)
    /\ now >= 150

\* C17, as claimed: in the paused scenario the preview sends exactly one
\* Seek.
C17_ExactlyOneSeek == sent <= 1

\* C17, amended: in the paused scenario the first redraw sends
\* Seek{target}; a later redraw sends it again only if the last Seek is
\* older than the adaptive timeout and the slot holds no accurate frame;
\* the first frame the worker publishes is approximate; and in the end the
\* preview presents an accurate frame, redraw after redraw, and sends
\* nothing more.
C17_PausedSeek ==
    /\ [][/\ IsRedraw =>
                LET fps == ClipFpsOf("A", slot)
                    seek == <<UiCmd("seek", "A", SeekCmd(PausedTarget))>>
                    overdue ==
                        /\ ui_ev.seek_at.some
                        /\ BeyondAdaptive(now - ui_ev.seek_at.v, fps)
                        /\ ~(slot.some /\ slot.v.accurate)
                IN /\ ui_ev.state = "None" => ui_ev'.cmds = seek
                   /\ ui_ev.state # "None" =>
                        \/ ui_ev'.cmds = <<>>
                        \/ ui_ev'.cmds = seek /\ overdue
          /\ (~slot.some /\ slot'.some) => ~slot'.v.accurate]_vars
    /\ <>[](/\ ui_ev.picked.some
            /\ ui_ev.picked.v.accurate
            /\ ui_ev.cmds = <<>>)
\* one Seek was enough: the accurate frame is presented, the worker is back
\* in Paused, and the adaptive timeout has long passed
C17_Witness ==
    /\ sent = 1
    /\ now = MaxClockSteps * ClockStepMs
    /\ mode = "Paused"
    /\ slot.some
    /\ slot.v.accurate
    /\ ui_ev.picked = slot
    /\ ui_ev.cmds = <<>>

(***************************************************************************)
(* Properties of the epsilon, of the FrameRing, of the worker's failures   *)
(* and of the playback clock.                                              *)
(***************************************************************************)
\* C21: epsilon is max(a quarter of the frame duration, 10 ms), the frame
\* duration being 1/fps of the slot's frame, or of the sequence when the slot
\* is empty: in whole microseconds, 10000 when 250000/fps is below 10001
\* and the integer part of 250000/fps otherwise; 10416 at 24 fps and the
\* 10 ms floor from 25 fps on.
C21_EpsilonValue ==
    eps_ev.out.some =>
        LET fps == IF eps_ev.latest_fps.some THEN eps_ev.latest_fps.v
                   ELSE eps_ev.seq_fps
            e == eps_ev.out.v
        IN /\ \/ e = 10000 /\ 250000 < 10001 * fps
              \/ e > 10000 /\ e * fps <= 250000 /\ 250000 < (e + 1) * fps
           /\ fps = 24 => e = 10416
           /\ fps >= 25 => e = 10000
\* the epsilon of a redraw that finds a 24 fps frame in the slot
C21_Witness ==
    /\ eps_ev.latest_fps = Some(24)
    /\ eps_ev.seq_fps = 30
    /\ eps_ev.out = Some(10416)

\* the ring's last operation
RingDid(op) == ring_ev.op = op
\* the frames of the ring before the operation that were at or before its target
EarlierThanTarget == {i \in 1..Len(ring_ev.before) : ring_ev.before[i] <= ring_ev.arg}
\* the ring lost exactly the frame at index i and kept the others in order
LostOnly(i) ==
    /\ Len(ring) = Len(ring_ev.before) - 1
    /\ \A j \in 1..Len(ring) :
           ring[j] = ring_ev.before[IF j < i THEN j ELSE j + 1]

\* C22: after any sequence of push, pop and clear the ring holds at most
\* its capacity; a push into a full ring removes exactly the frame inserted
\* earliest and appends the new one, a push into a ring that is not full
\* removes nothing.
C22_RingBoundFifo ==
    /\ Len(ring) <= RingCap
    /\ (RingDid("push") /\ Len(ring_ev.before) = RingCap) =>
           ring = Tail(ring_ev.before) \o <<ring_ev.arg>>
    /\ (RingDid("push") /\ Len(ring_ev.before) < RingCap) =>
           ring = ring_ev.before \o <<ring_ev.arg>>
C22_Witness ==
    /\ RingDid("push")
    /\ ring_ev.before = <<10, 20, 35>>
    /\ ring = <<20, 35, 50>>

\* C23: when the ring holds a frame with pts <= target, the pop returns the
\* frame with the largest such pts, removes exactly that frame and leaves
\* the others in their order ({1.0, 2.0, 3.5} and target 3.0 give 2.0).
C23_NearestAtOrBefore ==
    (RingDid("pop") /\ EarlierThanTarget # {}) =>
        /\ ring_ev.out.some
        /\ ring_ev.out.v <= ring_ev.arg
        /\ \A j \in EarlierThanTarget : ring_ev.before[j] <= ring_ev.out.v
        /\ \E i \in EarlierThanTarget :
               ring_ev.before[i] = ring_ev.out.v /\ LostOnly(i)
C23_Witness ==
    /\ RingDid("pop")
    /\ ring_ev.before = <<10, 20, 35>>
    /\ ring_ev.arg = 30
    /\ ring_ev.out = Some(20)
    /\ ring = <<10, 35>>

\* C24: a pop on a ring that is not empty and holds no frame with
\* pts <= target removes and returns the oldest frame ({5.0, 6.0} and
\* target 1.0 give 5.0); a pop returns nothing exactly when the ring is
\* empty, and every pop that returns a frame shortens the ring by one.
C24_RingFallback ==
    RingDid("pop") =>
        /\ (ring_ev.before # <<>> /\ EarlierThanTarget = {}) =>
               (ring_ev.out = Some(ring_ev.before[1]) /\ LostOnly(1))
        /\ ~ring_ev.out.some <=> ring_ev.before = <<>>
        /\ ring_ev.out.some => Len(ring) = Len(ring_ev.before) - 1
        /\ ~ring_ev.out.some => ring = ring_ev.before
C24_Witness ==
    /\ RingDid("pop")
    /\ ring_ev.before = <<50, 60>>
    /\ ring_ev.arg = 10
    /\ ring_ev.out = Some(50)
    /\ ring = <<60>>

\* C25: in one Playing or Seeking tick the decode_frame calls after the
\* first never exceed PREFETCH_BUDGET_PER_TICK, and a tick in which no kept
\* call yields a frame writes nothing to the slot.
C25_BoundedRetry ==
    (ev.kind = "tick" /\ ev.decodes > 0) =>
        /\ ev.decodes - 1 <= PREFETCH_BUDGET_PER_TICK
        /\ ~ev.out.some => ~ev.wrote

\* a seek tick: the worker's tick in Seeking or Scrubbing with a seek pending
SeekTickStep ==
    /\ pc = "tick" /\ pc' # "tick"
    /\ mode \in {"Seeking", "Scrubbing"}
    /\ need_seek_decode
\* the seek of the current target was issued longer ago than the stall timeout
SeekStalled ==
    /\ last_seek_target = Some(anchor_pts)
    /\ seek_started_at.some
    /\ now - seek_started_at.v > StallTimeoutMs

\* C30: a seek tick that gets no frame while the seek has been outstanding
\* for longer than the stall timeout re-issues the seek of the current stage
\* (key-unit if the approximate frame was not shown yet, precise otherwise)
\* for the same target; mode, need_seek_decode, approx_shown and the target
\* stay as they were and only the seek's start time is reset.
C30_StallNudge ==
    [][(SeekTickStep /\ SeekStalled /\ ~ev'.out.some) =>
        /\ ev'.seeks =
             <<[op |-> IF approx_shown THEN "seek_to" ELSE "seek_to_keyframe",
                t |-> anchor_pts]>>
        /\ seek_started_at' = Some(now)
        /\ UNCHANGED <<mode, need_seek_decode, approx_shown, anchor_pts,
                       last_seek_target, slot, rate, running>>]_vars
\* after a single Seek command, a nudge has just re-issued the precise seek
\* of a stalled accurate stage
C30_Witness ==
    /\ ev.kind = "tick"
    /\ ev.from = "Seeking"
    /\ ~ev.out.some
    /\ ev.seeks = <<[op |-> "seek_to", t |-> anchor_pts]>>
    /\ approx_shown
    /\ last_seek_target = Some(anchor_pts)
    /\ seek_started_at = Some(now)
    /\ now > StallTimeoutMs
    /\ sent = 1
    /\ Len(seek_hist) >= 2
    /\ seek_hist[Len(seek_hist) - 1] = "seek_to"
    /\ seek_hist[Len(seek_hist)] = "seek_to"

\* C27: a failure to lock the slot when a frame is to be published is fatal
\* for the worker: the tick that hits it ends the worker's loop.
C27_LockFailureFatal ==
    [][(pc = "tick" /\ pc' # "tick" /\ poisoned /\ ev'.out.some) =>
        pc' = "exited"]_vars

\* create_decoder failed when the worker's thread started
CreateFailed == ev.kind = "create_failed"

\* C26: after create_decoder fails at the worker's start the thread has
\* ended and the slot stays empty in every later state; the consumer's sends
\* are ignored without blocking it, and it can always redraw, with no frame.
C26_CreateFailure ==
    CreateFailed =>
        /\ pc = "exited"
        /\ slot = None
        /\ ~ui_ev.picked.some
        /\ ENABLED PausedRedraw
\* a Seek was sent to the failed worker and dropped, and the redraw that
\* sent it presented nothing
C26_Witness ==
    /\ CreateFailed
    /\ queue = <<>>
    /\ sent > 0
    /\ ui_ev.n = 1
    /\ ~ui_ev.picked.some

CallOps(cs) == [i \in 1..Len(cs) |-> cs[i].op]

\* C29: a paused clock reads its anchor position; the toggles call play and
\* pause with the position of the current playhead, so a play followed by a
\* pause with no time elapsed between them, in one update or in two, leaves
\* now() as it was.
C29_ToggleKeepsNow ==
    /\ ~clock.playing => ClockNow(clock, now) = clock.anchor_position
    /\ \A i \in 1..Len(clock_ev.calls) :
           clock_ev.calls[i].pos = CurrentSec(clock_ev.calls[i].head)
    /\ CallOps(clock_ev.calls) = <<"play", "pause">> =>
           ClockNow(clock, now) = clock_ev.was
    /\ ( /\ CallOps(clock_ev.prev.calls) = <<"play">>
         /\ CallOps(clock_ev.calls) = <<"pause">>
         /\ clock_ev.prev.at = clock_ev.at ) =>
           ClockNow(clock, now) = clock_ev.prev.was

(***************************************************************************)
(* Properties of the worker and the decoder together.                      *)
(***************************************************************************)
\* C35: within one tick, if any decode_frame call returns a frame, a frame
\* is written to the slot in that tick, and no frame the decoder hands out
\* is dropped without being published.
C35_NoFrameDropped ==
    ev.kind = "tick" =>
        /\ ev.dropped = 0
        /\ ev.out.some => ev.wrote

\* C31: a re-anchoring Play{start_pts = media_t} processed by a worker that
\* is Playing moves the worker's play anchor to media_t at the present
\* instant.
C31_ReanchorTakesEffect ==
    [][(Handles("Play") /\ mode = "Playing") =>
            /\ anchor_pts' = Head(queue).start_pts
            /\ anchor_t' = now]_vars

\* the last seek call made to the decoder when the tick of this step decodes:
\* the last one of the tick itself, or else the last one issued before it
SeekBeforeDecode ==
    IF ev'.seeks # <<>> THEN Some(ev'.seeks[Len(ev'.seeks)]) ELSE issued

\* C33: a frame published with accurate=true in Seeking was decoded after a
\* precise seek (seek_to) to the current target, the last seek call before
\* it; a frame published with accurate=false was decoded after a key-unit
\* seek (seek_to_keyframe) to the current target; a frame published in
\* Playing has accurate=true.
C33_AccurateFlagSound ==
    [][(IsTick /\ ev'.out.some) =>
        /\ mode = "Playing" => ev'.out.v.accurate
        /\ mode \in {"Seeking", "Scrubbing"} =>
            /\ SeekBeforeDecode.some
            /\ SeekBeforeDecode.v.t = anchor_pts
            /\ SeekBeforeDecode.v.op =
                 IF ev'.out.v.accurate THEN "seek_to" ELSE "seek_to_keyframe"]_vars
\* an accurate frame has just been published for a seek whose precise seek
\* was issued in an earlier tick
C33_Witness ==
    /\ ev.kind = "tick"
    /\ ev.from = "Seeking"
    /\ ev.out.some
    /\ ev.out.v.accurate
    /\ ev.seeks = <<>>
    /\ mode = "Paused"
    /\ Len(seek_hist) >= 3
    /\ seek_hist[Len(seek_hist) - 1] = "seek_to"

\* C34: at the start of every tick need_seek_decode is true exactly when
\* the mode is Seeking; the mode is never Scrubbing; and the worker enters
\* Paused only by a Pause processed with no seek in flight or by publishing
\* the accurate frame of a seek.
C34_WorkerModeInvariant ==
    /\ [](pc = "tick" => (need_seek_decode <=> mode = "Seeking"))
    /\ [](mode # "Scrubbing")
    /\ [][(mode # "Paused" /\ mode' = "Paused") =>
            \/ Handles("Pause") /\ ~need_seek_decode
            \/ /\ IsTick
               /\ mode = "Seeking"
               /\ ev'.out.some
               /\ ev'.out.v.accurate]_vars
\* a tick starts in Seeking after a Pause that was deferred
C34_Witness ==
    /\ pc = "tick"
    /\ mode = "Seeking"
    /\ need_seek_decode
    /\ last_cmd = "Pause"
    /\ ev.kind = "drained"

\* C39: whenever the worker's mode is Playing the decoder is in streaming
\* mode (strict_paused false); while a seek is in flight after its seek call
\* the decoder is in strict-paused mode, and every decode of a seek tick is
\* made in strict-paused mode.
C39_DecoderModeFollows ==
    /\ [](mode = "Playing" => ~strict_paused)
    /\ []((mode = "Seeking" /\ need_seek_decode /\ issued.some) =>
              strict_paused)
    /\ [][(IsTick /\ mode = "Seeking" /\ ev'.decodes > 0) =>
              strict_paused']_vars
\* the worker plays in streaming mode after a Play that interrupted a seek
\* whose seek call had put the decoder in strict-paused mode
C39_Witness ==
    /\ mode = "Playing"
    /\ ~strict_paused
    /\ ev.kind = "cmd"
    /\ ev.from = "Seeking"
    /\ ev.ssp
    /\ last_cmd = "Play"
    /\ approx_shown

\* the decoder's last call
GstDid(op) == gst_ev.op = op

\* C36: between two seeks, decode_frame calls with non-decreasing timestamps
\* never return a frame whose pts is lower than the pts of a frame returned
\* earlier.
C36_NeverBackwards ==
    ( /\ GstDid("decode")
      /\ gst_ev.run.mono
      /\ gst_ev.out.some
      /\ gst_ev.high_was.some ) =>
        gst_ev.out.v >= gst_ev.high_was.v

\* C37: every seek of the decoder (seek_to, seek_to_keyframe, the internal
\* seek of decode_frame) leaves the ring empty, so no frame in the ring and
\* no frame returned by decode_frame was pushed before the last seek.
C37_SeekEmptiesRing ==
    /\ gst_ev.seeked => gst_ev.at_seek = <<>>
    /\ (GstDid("seek_to") \/ GstDid("seek_to_keyframe")) => ring = <<>>
    /\ ~gst_ev.out_old
    /\ Len(gst_ev.old) = Len(ring)
    /\ \A i \in 1..Len(gst_ev.old) : ~gst_ev.old[i]
\* a precise seek has just emptied a ring that held two frames
C37_Witness ==
    /\ GstDid("seek_to")
    /\ Len(gst_ev.was.ring) = 2
    /\ ring = <<>>

NoPauseQueued == \A i \in 1..Len(queue) : queue[i].type # "Pause"

\* C32: pausing the preview stops the worker's playback: no redraw ever
\* sends Pause; the first Paused redraw after a Playing one sends
\* Seek{target}, the Playing redraws having left no remembered seek pts; and
\* once the preview stays Paused the worker, with a decoder that eventually
\* returns frames, leaves Playing and ends in Paused with an accurate frame
\* in the slot.
C32_PauseStopsPlayback ==
    /\ [](NoPauseQueued /\ ~SentKind(ui_ev, "pause"))
    /\ [][/\ (IsRedraw /\ ui_ev'.state = "Playing") =>
                last_seek_sent_pts' = None
          /\ (IsRedraw /\ ui_ev.state = "Playing"
                /\ ui_ev'.state = "Paused") =>
                ui_ev'.cmds = <<UiCmd("seek", "A", SeekCmd(PausedTarget))>>]_vars
    /\ (<>[](~clock.playing)) =>
            <>[](/\ mode = "Paused"
                 /\ ~need_seek_decode
                 /\ slot.some
                 /\ slot.v.accurate)
\* the worker went into Playing on the preview's Play some time after the
\* start (only that sets anchor_t), the preview was paused and redrawn, and
\* the worker is back in Paused with the accurate frame of the target in the
\* slot
C32_Witness ==
    /\ ~clock.playing
    /\ ui_ev.state = "Paused"
    /\ anchor_t > 0
    /\ mode = "Paused"
    /\ slot.some
    /\ slot.v.accurate
    /\ slot.v.pts = PausedTarget

====
